---- MODULE Spec2Model ----
(***************************************************************************)
(* A model of the Shaiya archive codec of libclient (src/src/io.rs and     *)
(* src/src/fs.rs): the byte primitives, the archive encoder                *)
(* (build_filesystem / write_contents), the archive decoder                *)
(* (read_filesystem / read_contents) and the disk scanner                  *)
(* (Filesystem::from_path / map_directory).                                *)
(*                                                                         *)
(* Representation.                                                         *)
(*   - a byte is a number in 0..255, a buffer a sequence of bytes;         *)
(*   - a Rust String is the sequence of its Unicode scalar values, and     *)
(*     as_bytes() is its UTF-8 encoding (Utf8);                            *)
(*   - a u32 is the pair <<hi, lo>> of its 16-bit halves and a u64 the     *)
(*     tuple <<l3, l2, l1, l0>> of its 16-bit limbs, most significant      *)
(*     first: TLC's integers are 32-bit signed, so a full-range u32 (a     *)
(*     checksum) cannot be one TLC number.  Every value keeps its width.   *)
(***************************************************************************)
EXTENDS Integers, Sequences, FiniteSets, TLC

VARIABLES
    \* ---- byte primitives (ShaiyaWrite / ShaiyaRead) ----
    written,    \* the strings put into sbuf so far, in order
    sbuf,       \* the BytesMut the strings are put into
    cursor,     \* position of the reading Cursor over sbuf
    readback,   \* the results of read_length_prefixed_string so far
    \* ---- build_filesystem, then read_filesystem on what it wrote ----
    fs,         \* the Filesystem given to build_filesystem (its contents)
    pc,         \* where build_filesystem / the caller is
    out,        \* build_filesystem's local `out` (the assembled header)
    data_buf,   \* build_filesystem's local `data_buf`
    header,     \* bytes the header sink has received
    data,       \* bytes the data sink has received
    log,        \* the sinks written to, in order of the write_all calls
    result,     \* what build_filesystem returned
    decoded,    \* what read_filesystem returned for the written header
    \* ---- read_filesystem on an arbitrary header buffer ----
    rbuf,       \* the header buffer handed to read_filesystem
    rkind,      \* how rbuf was obtained (ghost: names the input family)
    rpc,
    rres,       \* what read_filesystem returned
    \* ---- Filesystem::from_path ----
    disk,       \* the directory enumeration collaborator's view of the path
    spc,
    scanres     \* the outcome of from_path

strVars   == <<written, sbuf, cursor, readback>>
buildVars == <<fs, pc, out, data_buf, header, data, log, result, decoded>>
readVars  == <<rbuf, rkind, rpc, rres>>
scanVars  == <<disk, spc, scanres>>
vars      == <<strVars, buildVars, readVars, scanVars>>

(***************************************************************************)
(* Fixed-width integers.                                                   *)
(***************************************************************************)
Half == 256 * 256

\* `n as u32` for a usize / u64 n the model can hold (n < 2^31).
AsU32(n) == << (n \div Half) % Half, n % Half >>

\* `n as u64` for a usize n the model can hold.
AsU64(n) == << 0, 0, (n \div Half) % Half, n % Half >>

IsZero32(w) == w[1] = 0 /\ w[2] = 0

\* w - 1 for a non-zero u32 (the countdown of `for _ in 0..w`).
Dec32(w) == IF w[2] > 0 THEN << w[1], w[2] - 1 >> ELSE << w[1] - 1, Half - 1 >>

\* The value of a u32 / u64, where the model's numbers can hold it.
Small32(w) == w[1] < 16384
Val32(w)   == w[1] * Half + w[2]
Small64(q) == q[1] = 0 /\ q[2] = 0 /\ q[3] < 16384
Val64(q)   == q[3] * Half + q[4]

\* The two little-endian bytes of a 16-bit limb.
Le16(h) == << h % 256, h \div 256 >>

(***************************************************************************)
(* BufMut: put_u8, put_u32_le, put_u64_le, put_slice, put_bytes.           *)
(***************************************************************************)
put_u8(buf, b) == Append(buf, b)

put_u32_le(buf, w) == buf \o Le16(w[2]) \o Le16(w[1])

put_u64_le(buf, q) == buf \o Le16(q[4]) \o Le16(q[3]) \o Le16(q[2]) \o Le16(q[1])

put_slice(buf, bytes) == buf \o bytes

put_bytes(buf, val, cnt) == buf \o [i \in 1..cnt |-> val]

(***************************************************************************)
(* str::as_bytes: the UTF-8 encoding of a sequence of scalar values.       *)
(***************************************************************************)
Utf8Char(cp) ==
    IF cp < 128 THEN << cp >>
    ELSE IF cp < 2048 THEN << 192 + (cp \div 64), 128 + (cp % 64) >>
    ELSE IF cp < 65536
         THEN << 224 + (cp \div 4096), 128 + ((cp \div 64) % 64), 128 + (cp % 64) >>
         ELSE << 240 + (cp \div 262144), 128 + ((cp \div 4096) % 64),
                 128 + ((cp \div 64) % 64), 128 + (cp % 64) >>

RECURSIVE Utf8(_)
Utf8(s) == IF s = << >> THEN << >> ELSE Utf8Char(Head(s)) \o Utf8(Tail(s))

(***************************************************************************)
(* ShaiyaWrite::put_length_prefixed_string.                                *)
(***************************************************************************)
put_length_prefixed_string_len(buf, string) ==
    \* mutant: the prefix holds the byte count without the terminator
    LET bytes == Utf8(string)
    IN  put_u8(put_slice(put_u32_le(buf, AsU32(Len(bytes))), bytes), 0)

put_length_prefixed_string(buf, string) ==
    LET bytes == Utf8(string)
    IN  put_u8(put_slice(put_u32_le(buf, AsU32(Len(bytes) + 1)), bytes), 0)

(***************************************************************************)
(* Reading from a Cursor<&[u8]>.  A cursor is [buf, pos]; a read returns   *)
(* [ok |-> TRUE, val, cur] or [ok |-> FALSE, err |-> "UnexpectedEof"].     *)
(* After a seek pos may lie beyond the end of buf; every read is then at   *)
(* the end of the buffer.                                                  *)
(***************************************************************************)
Eof == [ok |-> FALSE, err |-> "UnexpectedEof"]

Ok(v, c) == [ok |-> TRUE, val |-> v, cur |-> c]

Advance(c, n) == [buf |-> c.buf, pos |-> c.pos + n]

Remaining(c) == IF c.pos >= Len(c.buf) THEN 0 ELSE Len(c.buf) - c.pos

read_u8(c) ==
    IF Remaining(c) >= 1 THEN Ok(c.buf[c.pos + 1], Advance(c, 1)) ELSE Eof

\* A read_u32 that pads a short read with zero bytes instead of failing.
read_u32_padded(c) ==
    IF Remaining(c) >= 4
    THEN LET b == [i \in 1..4 |-> c.buf[c.pos + i]]
         IN  Ok(<< b[4] * 256 + b[3], b[2] * 256 + b[1] >>, Advance(c, 4))
    ELSE Ok(<< 0, 0 >>, Advance(c, Remaining(c)))

\* ReadBytesExt::read_u32::<LittleEndian>
read_u32(c) ==
    IF Remaining(c) >= 4
    THEN LET b == [i \in 1..4 |-> c.buf[c.pos + i]]
         IN  Ok(<< b[4] * 256 + b[3], b[2] * 256 + b[1] >>, Advance(c, 4))
    ELSE Eof

\* ReadBytesExt::read_u64::<LittleEndian>
read_u64(c) ==
    IF Remaining(c) >= 8
    THEN LET b == [i \in 1..8 |-> c.buf[c.pos + i]]
         IN  Ok(<< b[8] * 256 + b[7], b[6] * 256 + b[5],
                   b[4] * 256 + b[3], b[2] * 256 + b[1] >>, Advance(c, 8))
    ELSE Eof

\* Seek::seek(SeekFrom::Current(n)) on a Cursor: never fails for n >= 0, and
\* may leave the position beyond the end.
seek_current(c, n) == Advance(c, n)

(***************************************************************************)
(* ShaiyaRead::read_fixed_length_string: `length` bytes, each pushed as    *)
(* the char of its value (`u8 as char`) unless it is zero.                 *)
(***************************************************************************)
RECURSIVE ReadChars(_, _, _)
ReadChars(c, left, string) ==
    IF IsZero32(left) THEN Ok(string, c)
    ELSE LET r == read_u8(c)
         IN  IF ~r.ok THEN r
             ELSE ReadChars(r.cur, Dec32(left),
                            IF r.val # 0 THEN Append(string, r.val) ELSE string)

read_fixed_length_string(c, length) == ReadChars(c, length, << >>)

\* ShaiyaRead::read_length_prefixed_string
read_length_prefixed_string(c) ==
    LET length == read_u32(c)
    IN  IF ~length.ok THEN length
        ELSE read_fixed_length_string(length.cur, length.val)

(***************************************************************************)
(* crc::Crc::<u32>::new(&CRC_32_CKSUM).checksum(bytes): width 32,          *)
(* poly 0x04C11DB7, init 0, no reflection, xorout 0xFFFFFFFF, computed     *)
(* bit by bit, most significant bit first, on the halves <<hi, lo>>.       *)
(***************************************************************************)
\* Bit p (a power of two) of a XOR b.
XorBit(a, b, p) == (((a \div p) + (b \div p)) % 2) * p

Xor8(a, b) ==
    XorBit(a, b, 1) + (XorBit(a, b, 2) + (XorBit(a, b, 4) + (XorBit(a, b, 8)
        + (XorBit(a, b, 16) + (XorBit(a, b, 32) + (XorBit(a, b, 64)
        + XorBit(a, b, 128)))))))

Xor16(a, b) == Xor8(a % 256, b % 256) + 256 * Xor8(a \div 256, b \div 256)

\* The table of the crate's table-driven implementation, built at compile
\* time from the polynomial 0x04C11DB7: entry i (at index i + 1) is the
\* register << i * 2^24 >> after eight steps of "shift left by one and, if a
\* one was shifted out, XOR the polynomial in".  Each entry is <<hi, lo>>.
CrcTable ==
    <<
       << 0, 0 >>, << 1217, 7607 >>, << 2434, 15214 >>, << 3395, 9945 >>,
       << 4868, 30428 >>, << 6085, 27499 >>, << 6790, 19890 >>, << 7751, 20485 >>,
       << 9736, 60856 >>, << 8905, 61455 >>, << 12170, 54998 >>, << 11083, 52065 >>,
       << 13580, 39780 >>, << 12749, 34515 >>, << 15502, 40970 >>, << 14415, 48573 >>,
       << 19473, 56176 >>, << 18640, 50887 >>, << 17811, 57374 >>, << 16722, 64937 >>,
       << 24341, 44460 >>, << 23508, 45083 >>, << 22167, 38594 >>, << 21078, 35701 >>,
       << 27161, 14024 >>, << 28376, 11135 >>, << 25499, 3494 >>, << 26458, 4113 >>,
       << 31005, 16404 >>, << 32220, 23971 >>, << 28831, 31610 >>, << 29790, 26317 >>,
       << 38947, 46816 >>, << 40162, 43863 >>, << 37281, 36238 >>, << 38240, 36921 >>,
       << 35623, 49212 >>, << 36838, 56715 >>, << 33445, 64338 >>, << 34404, 59109 >>,
       << 48683, 23384 >>, << 47850, 18159 >>, << 47017, 24630 >>, << 45928, 32129 >>,
       << 44335, 11652 >>, << 43502, 12339 >>, << 42157, 5866 >>, << 41068, 2909 >>,
       << 54322, 28048 >>, << 53491, 28711 >>, << 56752, 22270 >>, << 55665, 19273 >>,
       << 50998, 6988 >>, << 50167, 1787 >>, << 52916, 8226 >>, << 51829, 15765 >>,
       << 62010, 32808 >>, << 63227, 40351 >>, << 64440, 47942 >>, << 65401, 42737 >>,
       << 57662, 63220 >>, << 58879, 60227 >>, << 59580, 52634 >>, << 60541, 53293 >>,
       << 13446, 28791 >>, << 12359, 28096 >>, << 15620, 19225 >>, << 14789, 22190 >>,
       << 10114, 1707 >>, << 9027, 6940 >>, << 11776, 15813 >>, << 10945, 8306 >>,
       << 4750, 40399 >>, << 5711, 32888 >>, << 6924, 42657 >>, << 8141, 47894 >>,
       << 394, 60179 >>, << 1355, 63140 >>, << 2056, 53373 >>, << 3273, 52682 >>,
       << 30871, 43783 >>, << 31830, 46768 >>, << 28949, 36969 >>, << 30164, 36318 >>,
       << 27539, 56795 >>, << 28498, 49260 >>, << 25105, 59061 >>, << 26320, 64258 >>,
       << 24223, 18111 >>, << 23134, 23304 >>, << 22301, 32209 >>, << 21468, 24678 >>,
       << 19867, 12387 >>, << 18778, 11732 >>, << 17433, 2829 >>, << 16600, 5818 >>,
       << 44197, 50839 >>, << 43108, 56096 >>, << 42279, 65017 >>, << 41446, 57422 >>,
       << 49057, 45131 >>, << 47968, 44540 >>, << 46627, 35621 >>, << 45794, 38546 >>,
       << 35501, 11055 >>, << 36460, 13976 >>, << 33583, 4161 >>, << 34798, 3574 >>,
       << 39337, 24051 >>, << 40296, 16452 >>, << 36907, 26269 >>, << 38122, 31530 >>,
       << 57524, 7655 >>, << 58485, 80 >>, << 59702, 9865 >>, << 60919, 15166 >>,
       << 62384, 27451 >>, << 63345, 30348 >>, << 64050, 20565 >>, << 65267, 19938 >>,
       << 50876, 61535 >>, << 49789, 60904 >>, << 53054, 52017 >>, << 52223, 54918 >>,
       << 54712, 34435 >>, << 53625, 39732 >>, << 56378, 48621 >>, << 55547, 41050 >>,
       << 26892, 57582 >>, << 28109, 64857 >>, << 24718, 56192 >>, << 25679, 50743 >>,
       << 31240, 38450 >>, << 32457, 35717 >>, << 29578, 44380 >>, << 30539, 45291 >>,
       << 20228, 3414 >>, << 19397, 4321 >>, << 18054, 13880 >>, << 16967, 11151 >>,
       << 23552, 31626 >>, << 22721, 26173 >>, << 21890, 16612 >>, << 20803, 23891 >>,
       << 9501, 15262 >>, << 8668, 9769 >>, << 11423, 240 >>, << 10334, 7495 >>,
       << 13849, 19778 >>, << 13016, 20725 >>, << 16283, 30252 >>, << 15194, 27547 >>,
       << 789, 54822 >>, << 2004, 52113 >>, << 2711, 60744 >>, << 3670, 61695 >>,
       << 4113, 41210 >>, << 5328, 48461 >>, << 6547, 39828 >>, << 7506, 34339 >>,
       << 61743, 22030 >>, << 62958, 19385 >>, << 63661, 28000 >>, << 64620, 28887 >>,
       << 57899, 8402 >>, << 59114, 15717 >>, << 60329, 7100 >>, << 61288, 1547 >>,
       << 55079, 48054 >>, << 54246, 42497 >>, << 56997, 32984 >>, << 55908, 40303 >>,
       << 50211, 52586 >>, << 49378, 53469 >>, << 52641, 62980 >>, << 51552, 60339 >>,
       << 48446, 36222 >>, << 47615, 37065 >>, << 46268, 46608 >>, << 45181, 43943 >>,
       << 44602, 64418 >>, << 43771, 58901 >>, << 42936, 49356 >>, << 41849, 56699 >>,
       << 39734, 24774 >>, << 40951, 32113 >>, << 37556, 23464 >>, << 38517, 17951 >>,
       << 34866, 5658 >>, << 36083, 2989 >>, << 33200, 11636 >>, << 34161, 12483 >>,
       << 23946, 37017 >>, << 22859, 36142 >>, << 21512, 44023 >>, << 20681, 46656 >>,
       << 20110, 58949 >>, << 19023, 64498 >>, << 18188, 56619 >>, << 17357, 49308 >>,
       << 31618, 32033 >>, << 32579, 24726 >>, << 29184, 17999 >>, << 30401, 23544 >>,
       << 26758, 3069 >>, << 27719, 5706 >>, << 24836, 12435 >>, << 26053, 11556 >>,
       << 4507, 19433 >>, << 5466, 22110 >>, << 6169, 28807 >>, << 7384, 27952 >>,
       << 671, 15669 >>, << 1630, 8322 >>, << 2845, 1627 >>, << 4060, 7148 >>,
       << 14227, 42577 >>, << 13138, 48102 >>, << 15889, 40255 >>, << 15056, 32904 >>,
       << 9367, 53389 >>, << 8278, 52538 >>, << 11541, 60387 >>, << 10708, 63060 >>,
       << 50601, 9849 >>, << 49512, 15310 >>, << 52267, 7447 >>, << 51434, 160 >>,
       << 54957, 20645 >>, << 53868, 19730 >>, << 57135, 27595 >>, << 56302, 30332 >>,
       << 58273, 52161 >>, << 59232, 54902 >>, << 59939, 61615 >>, << 61154, 60696 >>,
       << 61605, 48413 >>, << 62564, 41130 >>, << 63783, 34419 >>, << 64998, 39876 >>,
       << 35256, 64777 >>, << 36217, 57534 >>, << 32826, 50791 >>, << 34043, 56272 >>,
       << 39612, 35797 >>, << 40573, 38498 >>, << 37694, 45243 >>, << 38911, 44300 >>,
       << 44976, 4273 >>, << 43889, 3334 >>, << 42546, 11231 >>, << 41715, 13928 >>,
       << 48308, 26221 >>, << 47221, 31706 >>, << 46390, 23811 >>, << 45559, 16564 >>
    >>

\* crc = table[(crc >> 24) ^ byte] ^ (crc << 8)
CrcByte(w, b) ==
    LET e == CrcTable[Xor8(w[1] \div 256, b) + 1]
    IN  << Xor16(e[1], (w[1] % 256) * 256 + w[2] \div 256),
           Xor16(e[2], (w[2] % 256) * 256) >>

\* The loop over the bytes; st is << the register, the bytes consumed >>.
RECURSIVE CrcUpdate(_, _)
CrcUpdate(st, bytes) ==
    IF st[2] >= Len(bytes) THEN st[1]
    ELSE CrcUpdate(<< CrcByte(st[1], bytes[st[2] + 1]), st[2] + 1 >>, bytes)

Crc32Cksum(bytes) ==
    LET w == CrcUpdate(<< << 0, 0 >>, 0 >>, bytes)
    IN  << (Half - 1) - w[1], (Half - 1) - w[2] >>

(***************************************************************************)
(* The tree model (src/src/fs.rs).  A directory's contents is a sequence   *)
(* of entries:                                                             *)
(*   Folder        [type |-> "Folder", name, contents]                     *)
(*   File::Direct  [type |-> "Direct", name, bytes, fail]                  *)
(*   File::Virtual [type |-> "Virtual", name, offset, length, checksum]    *)
(* A Direct entry is a path; the model holds what the disk holds at that   *)
(* path when the encoder resolves it: the path's file_name(), the file's   *)
(* bytes, and the I/O call that fails on it ("none", "open", "metadata"    *)
(* or "read").                                                             *)
(***************************************************************************)
Folder(name, contents) == [type |-> "Folder", name |-> name, contents |-> contents]

Direct(name, bytes, fail) ==
    [type |-> "Direct", name |-> name, bytes |-> bytes, fail |-> fail]

Virtual(name, offset, length, checksum) ==
    [type |-> "Virtual", name |-> name, offset |-> offset, length |-> length,
     checksum |-> checksum]

\* matches!(e, DirectoryEntry::File(_))
IsFile(e) == e.type # "Folder"

SAH_HEADER_MAGIC == << 83, 65, 72 >>            \* "SAH"

HEADER_VERSION == 0

ROOT_DIRECTORY_NAME == << 100, 97, 116, 97 >>   \* "data"

ReservedLen == 40

FooterLen == 8

MagicLen == 3

(***************************************************************************)
(* write_contents.  Returns [ok |-> TRUE, header, data, total] or          *)
(* [ok |-> FALSE, err]: the `?` on File::open, metadata and fs::read.      *)
(***************************************************************************)
IoErr(call) == [ok |-> FALSE, err |-> call]

\* line 80: the offset written for a file is the data buffer's length so far
FileOffset_reset(data_) == AsU64(0)

FileOffset(data_) == AsU64(Len(data_))

\* line 76: metadata.len() as u32
FileLength(bytes) == AsU32(Len(bytes))

\* lines 86-87: the checksum of the bytes read
FileChecksum_noxor(bytes) == CrcUpdate(<< << 0, 0 >>, 0 >>, bytes)

FileChecksum(bytes) == Crc32Cksum(bytes)

\* lines 72-89: one file of the loop
WriteFile(f, header_, data_) ==
    IF f.type = "Direct"
    THEN IF f.fail \in {"open", "metadata"} THEN IoErr(f.fail)
         ELSE LET h1 == put_length_prefixed_string(header_, f.name)
                  h2 == put_u64_le(h1, FileOffset(data_))
                  h3 == put_u32_le(h2, FileLength(f.bytes))
              IN  IF f.fail = "read" THEN IoErr(f.fail)
                  ELSE [ok |-> TRUE,
                        header |-> put_u32_le(h3, FileChecksum(f.bytes)),
                        data |-> put_slice(data_, f.bytes)]
    ELSE \* `if let File::Direct(path) = f` does not match: nothing is written
         [ok |-> TRUE, header |-> header_, data |-> data_]

\* lines 70-92: the loop over the directory's files
RECURSIVE WriteFiles(_, _, _)
WriteFiles(files, header_, data_) ==
    IF files = << >> THEN [ok |-> TRUE, header |-> header_, data |-> data_]
    ELSE LET w == WriteFile(Head(files), header_, data_)
         IN  IF ~w.ok THEN w ELSE WriteFiles(Tail(files), w.header, w.data)

\* lines 64-66: contents.iter().partition(...)
PartitionFiles(contents) == SelectSeq(contents, IsFile)

PartitionFolders(contents) == SelectSeq(contents, LAMBDA e : ~IsFile(e))

RECURSIVE write_contents(_, _, _)
RECURSIVE WriteFolders(_, _, _, _)

\* lines 94-102: the loop over the directory's folders
WriteFolders(folders, header_, data_, total_files) ==
    IF folders = << >>
    THEN [ok |-> TRUE, header |-> header_, data |-> data_, total |-> total_files]
    ELSE LET f == Head(folders)
             r == write_contents(f.contents,
                                 put_length_prefixed_string(header_, f.name), data_)
         IN  IF ~r.ok THEN r
             ELSE WriteFolders(Tail(folders), r.header, r.data, total_files + r.total)

write_contents(contents, header_, data_) ==
    LET files        == PartitionFiles(contents)
        folders      == PartitionFolders(contents)
        dir_file_qty == Len(files)
        w == WriteFiles(files, put_u32_le(header_, AsU32(dir_file_qty)), data_)
    IN  IF ~w.ok THEN w
        ELSE WriteFolders(folders, put_u32_le(w.header, AsU32(Len(folders))),
                          w.data, dir_file_qty)

\* build_filesystem lines 38-45: the assembly of `out`
AssembleHeader(total_files, header_buf) ==
    LET o1 == put_slice(<< >>, SAH_HEADER_MAGIC)
        o2 == put_u32_le(o1, AsU32(HEADER_VERSION))
        o3 == put_u32_le(o2, AsU32(total_files))
        o4 == put_bytes(o3, 0, ReservedLen)
        o5 == put_length_prefixed_string(o4, ROOT_DIRECTORY_NAME)
        o6 == put_slice(o5, header_buf)
    IN  put_bytes(o6, 0, FooterLen)

(***************************************************************************)
(* read_contents and read_filesystem.  read_filesystem returns             *)
(* [ok |-> TRUE, val (the contents), cur], Eof, or                         *)
(* [ok |-> FALSE, err |-> "InvalidMagicValue", magic].                     *)
(***************************************************************************)
\* lines 133-143: one file record
ReadFile(c) ==
    LET name == read_length_prefixed_string(c)
    IN  IF ~name.ok THEN name
        ELSE LET offset == read_u64(name.cur)
             IN  IF ~offset.ok THEN offset
                 ELSE LET length == read_u32(offset.cur)
                      IN  IF ~length.ok THEN length
                          ELSE LET checksum == read_u32(length.cur)
                               IN  IF ~checksum.ok THEN checksum
                                   ELSE Ok(Virtual(name.val, offset.val,
                                                   length.val, checksum.val),
                                           checksum.cur)

\* lines 132-144: the loop over the file records
RECURSIVE ReadFiles(_, _, _)
ReadFiles(c, left, contents) ==
    IF IsZero32(left) THEN Ok(contents, c)
    ELSE LET file == ReadFile(c)
         IN  IF ~file.ok THEN file
             ELSE ReadFiles(file.cur, Dec32(left), Append(contents, file.val))

RECURSIVE read_contents(_)
RECURSIVE ReadFolders(_, _, _)

\* lines 147-155: the loop over the folder records
ReadFolders(c, left, contents) ==
    IF IsZero32(left) THEN Ok(contents, c)
    ELSE LET name == read_length_prefixed_string(c)
         IN  IF ~name.ok THEN name
             ELSE LET folder_contents == read_contents(name.cur)
                  IN  IF ~folder_contents.ok THEN folder_contents
                      ELSE ReadFolders(folder_contents.cur, Dec32(left),
                              Append(contents, Folder(name.val, folder_contents.val)))

read_contents(c) ==
    LET dir_file_qty == read_u32(c)
    IN  IF ~dir_file_qty.ok THEN dir_file_qty
        ELSE LET files == ReadFiles(dir_file_qty.cur, dir_file_qty.val, << >>)
             IN  IF ~files.ok THEN files
                 ELSE LET folder_qty == read_u32(files.cur)
                      IN  IF ~folder_qty.ok THEN folder_qty
                          ELSE ReadFolders(folder_qty.cur, folder_qty.val, files.val)

\* An InvalidMagicValue that reports the expected tag, not the one read.
InvalidMagicValue_expected(magic) ==
    [ok |-> FALSE, err |-> "InvalidMagicValue", magic |-> SAH_HEADER_MAGIC]

InvalidMagicValue(magic) == [ok |-> FALSE, err |-> "InvalidMagicValue", magic |-> magic]

read_filesystem(buf) ==
    LET magic == read_fixed_length_string([buf |-> buf, pos |-> 0], AsU32(MagicLen))
    IN  IF ~magic.ok THEN magic
        ELSE IF magic.val # SAH_HEADER_MAGIC THEN InvalidMagicValue(magic.val)
        ELSE LET header_version == read_u32(magic.cur)
             IN  IF ~header_version.ok THEN header_version
                 ELSE LET total_files == read_u32(header_version.cur)
                      IN  IF ~total_files.ok THEN total_files
                          ELSE LET root_directory_name ==
                                     read_length_prefixed_string(
                                        seek_current(total_files.cur, ReservedLen))
                               IN  IF ~root_directory_name.ok THEN root_directory_name
                                   ELSE read_contents(root_directory_name.cur)

(***************************************************************************)
(* Inputs of build_filesystem: every tree of at most MaxNodes entries      *)
(* over a few names and file contents, and the tree                        *)
(* { a.txt = "DATA", sub/{ b.bin = empty } }.                              *)
(***************************************************************************)
MaxNodes == 3

MaxPartial == 1

FileNames == { << 97 >>, << 233 >> }            \* "a", "e-acute"

FolderNames == { << 115 >>, << 233 >> }         \* "s", "e-acute"

FileBytes == { << >>, << 68 >> }

FileEntries ==
    { Direct(n, b, "none") : n \in FileNames, b \in FileBytes }
        \cup { Direct(<< 97 >>, << 65 >>, f) : f \in {"open", "read"} }
        \cup { Virtual(<< 97 >>, AsU64(0), AsU32(1), Crc32Cksum(<< 68 >>)) }

RECURSIVE Forests(_)
Forests(n) ==
    IF n = 0 THEN { << >> }
    ELSE { << f >> \o rest : f \in FileEntries, rest \in Forests(n - 1) }
         \cup UNION { { << Folder(g, c) >> \o rest :
                            g \in FolderNames, c \in Forests(k),
                            rest \in Forests(n - 1 - k) } : k \in 0..(n - 1) }

ScenarioTree ==
    << Direct(<< 97, 46, 116, 120, 116 >>, << 68, 65, 84, 65 >>, "none"),
       Folder(<< 115, 117, 98 >>,
              << Direct(<< 98, 46, 98, 105, 110 >>, << >>, "none") >>) >>

Trees == UNION { Forests(n) : n \in 0..MaxNodes } \cup { ScenarioTree }

Pending == [ok |-> FALSE, err |-> "pending"]

\* What a read hands back to its caller: the value and, for the statements
\* about consumption, the position the cursor was left at.
Returned(r) == IF r.ok THEN [ok |-> TRUE, val |-> r.val, pos |-> r.cur.pos] ELSE r

Min(a, b) == IF a < b THEN a ELSE b

IdleBuild ==
    /\ fs = << >> /\ pc = "idle" /\ out = << >> /\ data_buf = << >>
    /\ header = << >> /\ data = << >> /\ log = << >>
    /\ result = Pending /\ decoded = Pending

InitBuild ==
    /\ fs \in Trees
    /\ pc = "start"
    /\ out = << >> /\ data_buf = << >>
    /\ header = << >> /\ data = << >> /\ log = << >>
    /\ result = Pending /\ decoded = Pending

\* A build that streams the magic tag to the header sink before it encodes
\* the tree.
Encode_streaming ==
    /\ pc = "start"
    /\ LET r == write_contents(fs, << >>, << >>)
       IN  IF r.ok
           THEN /\ out' = AssembleHeader(r.total, r.header)
                /\ data_buf' = r.data
                /\ pc' = "write_header"
                /\ UNCHANGED <<result, header>>
           ELSE /\ result' = r
                /\ pc' = "done"
                /\ header' = SAH_HEADER_MAGIC
                /\ UNCHANGED <<out, data_buf>>
    /\ UNCHANGED <<fs, data, log, decoded>>
    /\ UNCHANGED <<strVars, readVars, scanVars>>

(***************************************************************************)
(* build_filesystem, lines 34-45: encode the whole tree into header_buf    *)
(* and data_buf, then assemble `out`; an error of write_contents returns.  *)
(***************************************************************************)
Encode ==
    /\ pc = "start"
    /\ LET r == write_contents(fs, << >>, << >>)
       IN  IF r.ok
           THEN /\ out' = AssembleHeader(r.total, r.header)
                /\ data_buf' = r.data
                /\ pc' = "write_header"
                /\ UNCHANGED result
           ELSE /\ result' = r
                /\ pc' = "done"
                /\ UNCHANGED <<out, data_buf>>
    /\ UNCHANGED <<fs, header, data, log, decoded>>
    /\ UNCHANGED <<strVars, readVars, scanVars>>

\* line 48: header.write_all(&out)? succeeds
WriteHeader ==
    /\ pc = "write_header"
    /\ header' = header \o out
    /\ log' = Append(log, "header")
    /\ pc' = "write_data"
    /\ UNCHANGED <<fs, out, data_buf, data, result, decoded>>
    /\ UNCHANGED <<strVars, readVars, scanVars>>

\* line 48: header.write_all(&out)? fails after some prefix was written
WriteHeaderFails ==
    /\ pc = "write_header"
    /\ \E k \in 0..Min(MaxPartial, Len(out) - 1) :
          header' = header \o SubSeq(out, 1, k)
    /\ log' = Append(log, "header")
    /\ result' = IoErr("write_header")
    /\ pc' = "done"
    /\ UNCHANGED <<fs, out, data_buf, data, decoded>>
    /\ UNCHANGED <<strVars, readVars, scanVars>>

\* lines 49-50: data.write_all(&data_buf)? succeeds; Ok(())
WriteData ==
    /\ pc = "write_data"
    /\ data' = data \o data_buf
    /\ log' = Append(log, "data")
    /\ result' = [ok |-> TRUE]
    /\ pc' = "done"
    /\ UNCHANGED <<fs, out, data_buf, header, decoded>>
    /\ UNCHANGED <<strVars, readVars, scanVars>>

\* line 49: data.write_all(&data_buf)? fails after some prefix was written
WriteDataFails ==
    /\ pc = "write_data"
    /\ data_buf # << >>
    /\ \E k \in 0..Min(MaxPartial, Len(data_buf) - 1) :
          data' = data \o SubSeq(data_buf, 1, k)
    /\ log' = Append(log, "data")
    /\ result' = IoErr("write_data")
    /\ pc' = "done"
    /\ UNCHANGED <<fs, out, data_buf, header, decoded>>
    /\ UNCHANGED <<strVars, readVars, scanVars>>

\* Filesystem::from_archive on the header file build_filesystem left behind
ReadBack ==
    /\ pc = "done"
    /\ decoded' = Returned(read_filesystem(header))
    /\ pc' = "read"
    /\ UNCHANGED <<fs, out, data_buf, header, data, log, result>>
    /\ UNCHANGED <<strVars, readVars, scanVars>>

(***************************************************************************)
(* The byte primitives on their own: strings are put into one buffer and   *)
(* read back from it in order.                                             *)
(***************************************************************************)
MaxStrLen == 2

MaxPuts == 2

StrChars == { 0, 97, 233, 8364 }                \* NUL, "a", e-acute, euro sign

Strings == UNION { [1..n -> StrChars] : n \in 0..MaxStrLen }

IdleString == written = << >> /\ sbuf = << >> /\ cursor = 0 /\ readback = << >>

InitString == IdleString

PutString ==
    /\ Len(written) < MaxPuts
    /\ \E s \in Strings :
          /\ sbuf' = put_length_prefixed_string(sbuf, s)
          /\ written' = Append(written, s)
    /\ UNCHANGED <<cursor, readback>>
    /\ UNCHANGED <<buildVars, readVars, scanVars>>

ReadString ==
    /\ Len(readback) < Len(written)
    /\ \A i \in 1..Len(readback) : readback[i].ok
    /\ LET r == read_length_prefixed_string([buf |-> sbuf, pos |-> cursor])
       IN  /\ readback' = Append(readback, Returned(r))
           /\ cursor' = IF r.ok THEN r.cur.pos ELSE cursor
    /\ UNCHANGED <<written, sbuf>>
    /\ UNCHANGED <<buildVars, readVars, scanVars>>

(***************************************************************************)
(* Inputs of read_filesystem: the headers the encoder produces for small   *)
(* trees, cut at every length, with their leading bytes replaced, or with  *)
(* the root directory's file count raised.                                 *)
(***************************************************************************)
ReadMaxNodes == 2

InflatedCount == 5

MagicBytes == { 0, 65, 72, 83, 88, 89, 90, 233 }  \* NUL, "AHSXYZ", 0xE9

RECURSIVE AllDirect(_)
AllDirect(contents) ==
    \A i \in 1..Len(contents) :
        \/ contents[i].type = "Direct"
        \/ contents[i].type = "Folder" /\ AllDirect(contents[i].contents)

\* build_filesystem lines 36-45 for a tree whose files can all be read
Encoded(tree) == write_contents(tree, << >>, << >>)

ReadTrees ==
    { tr \in UNION { Forests(n) : n \in 0..ReadMaxNodes } :
          AllDirect(tr) /\ Encoded(tr).ok }

ValidHeaders ==
    { AssembleHeader(r.total, r.header) : r \in { Encoded(tr) : tr \in ReadTrees } }

EmptyHeader == AssembleHeader(0, put_u32_le(put_u32_le(<< >>, AsU32(0)), AsU32(0)))

\* The position of the root directory's file count in a header.
RootBodyPos == MagicLen + 4 + 4 + ReservedLen + 4 + Len(ROOT_DIRECTORY_NAME) + 1

ReadInputs ==
    UNION { { [buf |-> SubSeq(h, 1, k), kind |-> "cut", full |-> Len(h)] :
                  k \in 0..Len(h) } : h \in ValidHeaders }
    \cup { [buf |-> m \o SubSeq(EmptyHeader, MagicLen + 1, Len(EmptyHeader)),
            kind |-> "magic", full |-> Len(EmptyHeader)] :
              m \in [1..MagicLen -> MagicBytes] }
    \cup { [buf |-> [h EXCEPT ![RootBodyPos + 1] = InflatedCount],
            kind |-> "inflated", full |-> Len(h)] : h \in ValidHeaders }

IdleRead ==
    /\ rbuf = << >> /\ rkind = [kind |-> "idle", full |-> 0]
    /\ rpc = "idle" /\ rres = Pending

InitRead ==
    /\ \E in \in ReadInputs :
          /\ rbuf = in.buf
          /\ rkind = [kind |-> in.kind, full |-> in.full]
    /\ rpc = "ready"
    /\ rres = Pending

ReadFilesystem ==
    /\ rpc = "ready"
    /\ rres' = Returned(read_filesystem(rbuf))
    /\ rpc' = "done"
    /\ UNCHANGED <<rbuf, rkind>>
    /\ UNCHANGED <<strVars, buildVars, scanVars>>

(***************************************************************************)
(* Filesystem::from_path and map_directory over the directory enumeration  *)
(* collaborator.  The disk under the scanned path is                       *)
(*   root  [meta_ok, is_dir, read_ok, entries]                             *)
(*   entry [kind |-> "err"]         read_dir's iterator yields Err         *)
(*         [kind |-> "file", name, meta_ok]                                *)
(*         [kind |-> "dir", name, meta_ok, read_ok, entries]               *)
(* meta_ok: metadata() succeeds; read_ok: read_dir() succeeds.  An outcome *)
(* is Ok (a value), Err (a returned error) or Panic (an unwrap() of an     *)
(* Err unwinds the caller).                                                *)
(***************************************************************************)
ScanMaxNodes == 3

DiskFile(name, meta_ok) == [kind |-> "file", name |-> name, meta_ok |-> meta_ok]

DiskDir(name, meta_ok, read_ok, entries) ==
    [kind |-> "dir", name |-> name, meta_ok |-> meta_ok, read_ok |-> read_ok,
     entries |-> entries]

DiskLeaves ==
    { [kind |-> "err"] }
        \cup { DiskFile(<< 97 >>, m) : m \in BOOLEAN }
        \cup { DiskDir(<< 115 >>, FALSE, TRUE, << >>),
               DiskDir(<< 115 >>, TRUE, FALSE, << >>) }

RECURSIVE DiskForests(_)
DiskForests(n) ==
    IF n = 0 THEN { << >> }
    ELSE { << f >> \o rest : f \in DiskLeaves, rest \in DiskForests(n - 1) }
         \cup UNION { { << DiskDir(<< 115 >>, TRUE, TRUE, c) >> \o rest :
                            c \in DiskForests(k), rest \in DiskForests(n - 1 - k) } :
                      k \in 0..(n - 1) }

DiskRoots ==
    { [meta_ok |-> FALSE, is_dir |-> TRUE, read_ok |-> TRUE, entries |-> << >>],
      [meta_ok |-> TRUE, is_dir |-> FALSE, read_ok |-> TRUE, entries |-> << >>],
      [meta_ok |-> TRUE, is_dir |-> TRUE, read_ok |-> FALSE, entries |-> << >>] }
        \cup { [meta_ok |-> TRUE, is_dir |-> TRUE, read_ok |-> TRUE, entries |-> c] :
                   c \in UNION { DiskForests(n) : n \in 0..ScanMaxNodes } }

ScanOk(v) == [outcome |-> "Ok", val |-> v]

ScanErr(e) == [outcome |-> "Err", err |-> e]

ScanPanic == [outcome |-> "Panic"]

RECURSIVE map_directory(_)
RECURSIVE MapEntries(_)

\* `.map(|dir| Self::map_directory(&dir.unwrap()).unwrap()).collect()`
MapEntries(entries) ==
    IF entries = << >> THEN ScanOk(<< >>)
    ELSE LET dir == Head(entries)
         IN  IF dir.kind = "err" THEN ScanPanic            \* dir.unwrap()
             ELSE LET m == map_directory(dir)
                  IN  IF m.outcome # "Ok" THEN ScanPanic   \* map_directory(..).unwrap()
                      ELSE LET rest == MapEntries(Tail(entries))
                           IN  IF rest.outcome # "Ok" THEN rest
                               ELSE ScanOk(<< m.val >> \o rest.val)

map_directory(entry) ==
    IF ~entry.meta_ok THEN ScanErr("io")                   \* entry.metadata()?
    ELSE IF entry.kind = "dir"
         THEN IF ~entry.read_ok THEN ScanErr("io")          \* read_dir(entry.path())?
              ELSE LET contents == MapEntries(entry.entries)
                   IN  IF contents.outcome # "Ok" THEN contents
                       ELSE ScanOk(Folder(entry.name, contents.val))
         ELSE ScanOk(Direct(entry.name, << >>, "none"))

from_path(path) ==
    IF ~path.meta_ok THEN ScanErr("io")                    \* path.metadata()?
    ELSE IF ~path.is_dir THEN ScanErr("NotADirectory")
    ELSE IF ~path.read_ok THEN ScanErr("io")               \* read_dir(path)?
    ELSE MapEntries(path.entries)

IdleScan ==
    /\ disk = [meta_ok |-> FALSE, is_dir |-> FALSE, read_ok |-> FALSE, entries |-> << >>]
    /\ spc = "idle"
    /\ scanres = ScanErr("pending")

InitScan ==
    /\ disk \in DiskRoots
    /\ spc = "ready"
    /\ scanres = ScanErr("pending")

FromPath ==
    /\ spc = "ready"
    /\ scanres' = from_path(disk)
    /\ spc' = "done"
    /\ UNCHANGED disk
    /\ UNCHANGED <<strVars, buildVars, readVars>>

(***************************************************************************)
(* The specifications.                                                     *)
(***************************************************************************)
InitS == InitString /\ IdleBuild /\ IdleRead /\ IdleScan

NextString == PutString \/ ReadString

SpecString == InitS /\ [][NextString]_vars

Init == IdleString /\ InitBuild /\ IdleRead /\ IdleScan

Next ==
    \/ Encode
    \/ WriteHeader
    \/ WriteHeaderFails
    \/ WriteData
    \/ WriteDataFails
    \/ ReadBack

Spec == Init /\ [][Next]_vars

InitR == IdleString /\ IdleBuild /\ InitRead /\ IdleScan

NextRead == ReadFilesystem

SpecRead == InitR /\ [][NextRead]_vars

InitP == IdleString /\ IdleBuild /\ IdleRead /\ InitScan

NextScan == FromPath

SpecScan == InitP /\ [][NextScan]_vars

(***************************************************************************)
(*                              PROPERTIES                                 *)
(***************************************************************************)
Files(contents) == SelectSeq(contents, IsFile)

Folders(contents) == SelectSeq(contents, LAMBDA e : ~IsFile(e))

RECURSIVE HasVirtual(_)
HasVirtual(contents) ==
    \E i \in 1..Len(contents) :
        \/ contents[i].type = "Virtual"
        \/ contents[i].type = "Folder" /\ HasVirtual(contents[i].contents)

RECURSIVE HasFailing(_)
HasFailing(contents) ==
    \E i \in 1..Len(contents) :
        \/ contents[i].type = "Direct" /\ contents[i].fail # "none"
        \/ contents[i].type = "Folder" /\ HasFailing(contents[i].contents)

\* The tree was encoded and written in full, and the header read back.
BuiltAndRead == pc = "read" /\ result.ok /\ AllDirect(fs)

\* The shape of a source tree: per directory, its files in order (name,
\* length and checksum of the bytes on disk) and its folders in order.
RECURSIVE SrcShape(_)
SrcShape(contents) ==
    LET files   == Files(contents)
        folders == Folders(contents)
    IN  [files   |-> [i \in 1..Len(files) |->
                        [name     |-> files[i].name,
                         length   |-> AsU32(Len(files[i].bytes)),
                         checksum |-> Crc32Cksum(files[i].bytes)]],
         folders |-> [i \in 1..Len(folders) |->
                        [name  |-> folders[i].name,
                         shape |-> SrcShape(folders[i].contents)]]]

\* The shape of a decoded tree, from its Virtual entries.
RECURSIVE DecShape(_)
DecShape(contents) ==
    LET files   == Files(contents)
        folders == Folders(contents)
    IN  [files   |-> [i \in 1..Len(files) |->
                        [name     |-> files[i].name,
                         length   |-> files[i].length,
                         checksum |-> files[i].checksum]],
         folders |-> [i \in 1..Len(folders) |->
                        [name  |-> folders[i].name,
                         shape |-> DecShape(folders[i].contents)]]]

\* C1: reading the header build_filesystem wrote for a tree of folders and
\* Direct files gives back the same folder names and nesting and, in every
\* directory, the same file names, lengths and checksums in the same order.
C1_RoundTrip == BuiltAndRead => decoded.ok /\ DecShape(decoded.val) = SrcShape(fs)

\* C2: a tree that holds a File::Virtual entry is never encoded: the build
\* does not return Ok and the header sink receives nothing.
C2_VirtualFailsLoudly == HasVirtual(fs) => ~result.ok /\ header = << >>

\* The file records of a decoded tree in the order the encoder appended the
\* files: a directory's files, then its folders' records, folder by folder.
RECURSIVE Records(_)
RECURSIVE FolderRecords(_)
FolderRecords(folders) ==
    IF folders = << >> THEN << >>
    ELSE Records(Head(folders).contents) \o FolderRecords(Tail(folders))

Records(contents) == Files(contents) \o FolderRecords(Folders(contents))

RECURSIVE SumLengths(_)
SumLengths(rs) == IF rs = << >> THEN 0 ELSE Val32(Head(rs).length) + SumLengths(Tail(rs))

\* C3: in the archive written, a file appended before another ends at or
\* before the other's offset, the first file is at offset 0, and the data
\* written is as long as all the recorded lengths together.
C3_OffsetMonotonic ==
    BuiltAndRead =>
        /\ decoded.ok
        /\ LET rs == Records(decoded.val)
           IN  /\ \A i \in 1..Len(rs) : Small64(rs[i].offset) /\ Small32(rs[i].length)
               /\ rs # << >> => Val64(rs[1].offset) = 0
               /\ \A i \in 1..Len(rs) : \A j \in (i + 1)..Len(rs) :
                     Val64(rs[i].offset) + Val32(rs[i].length) <= Val64(rs[j].offset)
               /\ Len(data) = SumLengths(rs)

\* The tree { a.txt = "DATA", sub/{ b.bin = empty } } was built: 4 bytes of
\* data, a.txt at offset 0 with length 4, b.bin at offset 4 with length 0.
C3_Witness ==
    /\ BuiltAndRead /\ fs = ScenarioTree /\ decoded.ok
    /\ Len(data) = 4
    /\ LET rs == Records(decoded.val)
       IN  /\ Len(rs) = 2
           /\ Val64(rs[1].offset) = 0 /\ Val32(rs[1].length) = 4
           /\ Val64(rs[2].offset) = 4 /\ Val32(rs[2].length) = 0

\* C4: every file record's checksum is the CRC-32/CKSUM of the slice of the
\* data written that the record's offset and length give.
C4_ChecksumOfSlice ==
    BuiltAndRead =>
        /\ decoded.ok
        /\ \A i \in 1..Len(Records(decoded.val)) :
              LET r == Records(decoded.val)[i]
              IN  /\ Small64(r.offset) /\ Small32(r.length)
                  /\ Val64(r.offset) + Val32(r.length) <= Len(data)
                  /\ r.checksum =
                        Crc32Cksum(SubSeq(data, Val64(r.offset) + 1,
                                          Val64(r.offset) + Val32(r.length)))

\* Two non-empty files were built and read back; the second one's slice of
\* the data starts after the first one's.
C4_Witness ==
    /\ BuiltAndRead /\ decoded.ok
    /\ \E i, j \in 1..Len(Records(decoded.val)) :
          /\ i < j
          /\ Val32(Records(decoded.val)[i].length) > 0
          /\ Val32(Records(decoded.val)[j].length) > 0
          /\ Val64(Records(decoded.val)[j].offset) > 0
          /\ Records(decoded.val)[j].checksum = Crc32Cksum(<< 68 >>)

\* The bytes of an unsigned 32-bit number, lowest byte first.
LayU32(n) ==
    << n % 256, (n \div 256) % 256, (n \div Half) % 256, (n \div (256 * Half)) % 256 >>

\* The bytes of an unsigned 64-bit number below 2^31, lowest byte first.
LayU64(n) == LayU32(n) \o << 0, 0, 0, 0 >>

\* The bytes of a checksum word, lowest byte first.
LayWord(w) == << w[2] % 256, w[2] \div 256, w[1] % 256, w[1] \div 256 >>

LayZeros(n) == [i \in 1..n |-> 0]

\* A string field: u32 byte length plus one, the UTF-8 bytes, one zero byte.
LayStr(s) == LayU32(Len(Utf8(s)) + 1) \o Utf8(s) \o << 0 >>

\* The number of files, and of file bytes, in a tree.
RECURSIVE CountFiles(_)
CountFiles(contents) ==
    IF contents = << >> THEN 0
    ELSE (IF Head(contents).type = "Folder" THEN CountFiles(Head(contents).contents) ELSE 1)
         + CountFiles(Tail(contents))

RECURSIVE CountBytes(_)
CountBytes(contents) ==
    IF contents = << >> THEN 0
    ELSE (IF Head(contents).type = "Folder" THEN CountBytes(Head(contents).contents)
          ELSE Len(Head(contents).bytes))
         + CountBytes(Tail(contents))

\* The records of a directory's files, the first one's bytes at offset off.
RECURSIVE LayFiles(_, _)
LayFiles(files, off) ==
    IF files = << >> THEN << >>
    ELSE LayStr(Head(files).name) \o LayU64(off) \o LayU32(Len(Head(files).bytes))
         \o LayWord(Crc32Cksum(Head(files).bytes))
         \o LayFiles(Tail(files), off + Len(Head(files).bytes))

\* A directory body: file count, file records, folder count, and per folder
\* its name and its own body.
RECURSIVE LayBody(_, _)
RECURSIVE LayFolders(_, _)
LayFolders(folders, off) ==
    IF folders = << >> THEN << >>
    ELSE LayStr(Head(folders).name) \o LayBody(Head(folders).contents, off)
         \o LayFolders(Tail(folders), off + CountBytes(Head(folders).contents))

LayBody(contents, off) ==
    LayU32(Len(Files(contents))) \o LayFiles(Files(contents), off)
    \o LayU32(Len(Folders(contents)))
    \o LayFolders(Folders(contents), off + CountBytes(Files(contents)))

\* C5: the header build_filesystem emits is, in order: "SAH", u32 version 0,
\* u32 total file count, 40 zero bytes, the root name "data", the root
\* directory body (all files before all folders, each in source order), and
\* 8 zero bytes.
C5_HeaderLayout ==
    (AllDirect(fs) /\ out # << >>) =>
        out = << 83, 65, 72 >> \o LayU32(0) \o LayU32(CountFiles(fs)) \o LayZeros(40)
              \o LayStr(<< 100, 97, 116, 97 >>) \o LayBody(fs, 0) \o LayZeros(8)

\* A header was emitted for a directory holding a folder before a file, the
\* folder with a file of its own.
C5_Witness ==
    /\ AllDirect(fs) /\ out # << >> /\ Len(fs) = 2
    /\ fs[1].type = "Folder" /\ fs[1].contents # << >>
    /\ fs[2].type = "Direct" /\ fs[2].bytes # << >>

\* The build failed while encoding: a file could not be opened, inspected
\* or read.
EncodeFailed == ~result.ok /\ result.err \in { "open", "metadata", "read" }

\* C10: nothing is written to a sink before the whole tree is encoded: when
\* a file cannot be opened or read the build returns that error with both
\* sinks untouched, and a successful build has written the whole header to
\* the header sink, then the whole data buffer to the data sink, once each.
C10_SinksAfterEncoding ==
    /\ pc = "start" => log = << >>
    /\ (HasFailing(fs) /\ pc # "start") => EncodeFailed
    /\ EncodeFailed => header = << >> /\ data = << >> /\ log = << >>
    /\ data # << >> => Len(log) = 2
    /\ log \in { << >>, << "header" >>, << "header", "data" >> }
    /\ result.ok => header = out /\ data = data_buf /\ log = << "header", "data" >>
                    /\ out # << >>

\* A build failed on its second file after encoding the first one in
\* memory.
C10_Witness ==
    /\ pc = "done" /\ EncodeFailed
    /\ Len(fs) >= 2
    /\ fs[1].type = "Direct" /\ fs[1].fail = "none" /\ fs[1].bytes # << >>
    /\ fs[2].type = "Direct" /\ fs[2].fail # "none"

\* The leading bytes of the buffer read.
Leading == SubSeq(rbuf, 1, MagicLen)

BadMagic == rpc = "done" /\ Len(rbuf) >= MagicLen /\ Leading # << 83, 65, 72 >>

\* C6 as stated: a buffer whose first 3 bytes are not "SAH" is rejected
\* with InvalidMagicValue carrying exactly those 3 bytes.
C6_MagicCarriesLeadingBytes == BadMagic => rres = InvalidMagicValue(Leading)

\* C6: a buffer whose first 3 bytes are not "SAH" is rejected with
\* InvalidMagicValue, and no tree is returned; the value carried is the
\* first 3 bytes without their zero bytes, one character per byte left.
C6_MagicCarriesNonZeroLeadingBytes ==
    BadMagic =>
        /\ ~rres.ok
        /\ rres = [ok |-> FALSE, err |-> "InvalidMagicValue",
                   magic |-> SelectSeq(Leading, LAMBDA b : b # 0)]

\* A buffer starting "XYZ" was rejected and reported as "XYZ".
C6_Witness ==
    /\ BadMagic /\ Leading = << 88, 89, 90 >>
    /\ rres.err = "InvalidMagicValue" /\ rres.magic = << 88, 89, 90 >>

\* The buffer read is a header cut before the end of its directory body.
CutShort ==
    /\ rkind.kind = "cut"
    /\ Len(rbuf) >= MagicLen
    /\ Len(rbuf) < rkind.full - FooterLen

\* The buffer read is a header whose root file count asks for more file
\* records (of 20 bytes at least) than the bytes after it can hold.
CountTooLarge ==
    /\ rkind.kind = "inflated"
    /\ Len(rbuf) - (RootBodyPos + 4) < 20 * InflatedCount

\* C7: a header that starts with the magic tag and ends before the
\* structure it declares is complete is rejected with UnexpectedEof: no
\* tree, whole or partial, is returned.
C7_TruncationIsEof ==
    (rpc = "done" /\ (CutShort \/ CountTooLarge)) => ~rres.ok /\ rres = Eof

\* A header was cut inside a file record of its root directory and rejected.
C7_Witness ==
    /\ rpc = "done" /\ CutShort /\ rres = Eof
    /\ Len(rbuf) > RootBodyPos + 4
    /\ rbuf[RootBodyPos + 1] > 0

\* The position in the buffer after the first n strings written.
RECURSIVE WrittenEnd(_)
WrittenEnd(n) == IF n = 0 THEN 0 ELSE WrittenEnd(n - 1) + 4 + Len(Utf8(written[n])) + 1

\* C8: a string without a zero character that put_length_prefixed_string
\* wrote is read back by read_length_prefixed_string as the same string,
\* and the read consumes exactly the bytes written for it.
C8_StringRoundTrip ==
    \A i \in 1..Len(readback) :
        (\A k \in 1..Len(written[i]) : written[i][k] # 0) =>
            /\ readback[i].ok
            /\ readback[i].val = written[i]
            /\ readback[i].pos = WrittenEnd(i)

\* The enumeration fails for an entry somewhere under the scanned path:
\* the iterator yields an error, or the entry's metadata or listing fails.
RECURSIVE HasEntryError(_)
HasEntryError(entries) ==
    \E i \in 1..Len(entries) :
        \/ entries[i].kind = "err"
        \/ entries[i].kind # "err" /\ ~entries[i].meta_ok
        \/ entries[i].kind = "dir" /\ ~entries[i].read_ok
        \/ entries[i].kind = "dir" /\ HasEntryError(entries[i].entries)

\* C9: when the enumeration fails for an entry at any depth, from_path
\* returns a typed error: it neither panics nor returns a tree.
C9_ScanErrorIsTyped ==
    (spc = "done" /\ HasEntryError(disk.entries)) => scanres.outcome = "Err"

====
